---- MODULE Spec2Model ----
(***************************************************************************)
(* Movesense data collection: decoding of notification frames into         *)
(* per-(device, sensor) sample lists and their unification into one table. *)
(*                                                                         *)
(* Two classes hold the collected samples and unify them:                  *)
(*   MovesenseDataCollector (movesense_data_collector.py), and             *)
(*   MovesenseDeviceManager (movesense_device_manager.py), driven by       *)
(*   MovesenseCLI (movesense_cli.py).                                      *)
(* The variable session names the one that was constructed.                *)
(***************************************************************************)
EXTENDS Integers, Sequences, FiniteSets, TLC

\* ------------------------------------------------------------------ bounds
\* Samples a session stores at most.
MaxSamples == 5

\* ------------------------------------------------- sensor ids of the frames
AccId == 99
GyroId == 98
MagnId == 97
TemperatureId == 96
ECGId == 95
\* an id byte no branch of the decoder and no subscription knows
UnknownId == AccId + 1

Devices == {"d1", "d2"}
\* connected_devices, in connection order
connected_devices == <<"d1", "d2">>

\* An optional value is a sequence of at most one element: NaN is a missing
\* cell of a data frame, Some(v) a present one.
NaN == <<>>
Some(v) == <<v>>
NoExc == "none"

Min(S) == CHOOSE x \in S : \A y \in S : x <= y
Max(S) == CHOOSE x \in S : \A y \in S : y <= x
Range(f) == { f[i] : i \in DOMAIN f }
RECURSIVE Flatten(_)
Flatten(ss) == IF ss = <<>> THEN <<>> ELSE Head(ss) \o Flatten(Tail(ss))
RECURSIVE SortedSeq(_)
SortedSeq(S) == IF S = {} THEN <<>> ELSE <<Min(S)>> \o SortedSeq(S \ {Min(S)})

\* ----------------------------------------------------------------- frames
\* A notification frame: byte[1] is id, bytes[2..6) the uint32 timestamp,
\* bytes[6..) the float32 components.  A frame holds its 6 header bytes and
\* Len(floats) whole floats after them.
\* The frames device d sends: d1 carries an accelerometer and a thermometer,
\* d2 an accelerometer.  Besides whole frames of these sensors a device may
\* send one cut short after its header or after its first component, and one
\* of an id nobody knows.
SensorIds(d) == IF d = "d1" THEN {AccId, TemperatureId} ELSE {AccId}
Timestamps == {0, 1}
Frames(d) ==
  { [id |-> i, timestamp |-> t, floats |-> <<t, t + 1, t + 2>>] :
      i \in SensorIds(d), t \in Timestamps }
  \cup { [id |-> i, timestamp |-> 0, floats |-> <<>>] : i \in SensorIds(d) }
  \cup { [id |-> AccId, timestamp |-> 0, floats |-> <<0>>] }
  \cup { [id |-> UnknownId, timestamp |-> 0, floats |-> <<0, 1, 2>>] }

\* The sensors device d can be subscribed to (by the paths of the session
\* config or from the configuration menu): a MovesenseSensor has a sensor
\* type, a sampling rate and the id its frames carry, fixed by the type.
SensorId(sensor_type) ==
  CASE sensor_type = "Acc" -> AccId
    [] sensor_type = "Gyro" -> GyroId
    [] sensor_type = "Magn" -> MagnId
    [] sensor_type = "Temp" -> TemperatureId
    [] sensor_type = "ECG" -> ECGId
MovesenseSensor(sensor_type, sampling_rate) ==
  [id |-> SensorId(sensor_type), sensor_type |-> sensor_type,
   sampling_rate |-> sampling_rate, data |-> <<>>]
SensorPool(d) ==
  IF d = "d1"
  THEN {MovesenseSensor("Acc", 13), MovesenseSensor("Acc", 26), MovesenseSensor("Temp", 13)}
  ELSE {MovesenseSensor("Acc", 13), MovesenseSensor("Acc", 26)}

VARIABLES
  session,                \* the class that was constructed
  notification_handlers,  \* MovesenseDataCollector.notification_handlers (dict, insertion order)
  clock,                  \* datetime.now(): the next reading
  sensors,                \* ConnectedDevice.sensors of each connected device (dict, insertion order)
  phase,                  \* where MovesenseCLI.run is: "menu", "collecting", "exited"
  last                    \* the most recent call: the exception it raised (exc), what it
                          \* logged, and for unification the relative_id column and the
                          \* table returned

vars == <<session, notification_handlers, clock, sensors, phase, last>>

\* ------------------------------------------------------------- DataView
FrameLen(data) == 6 + 4 * Len(data.floats)
\* __get_binary reads array[start_index + x] for x in range(byte_count): an
\* index past the end of the buffer raises IndexError.
Readable(data, start_index, byte_count) == start_index + byte_count <= FrameLen(data)
get_uint_32(data, start_index) == data.timestamp
get_float_32(data, start_index) == data.floats[(start_index - 6) \div 4 + 1]

\* ------------------------------------------- MovesenseDataCollector: frames
\* The branches of handle_notification on the id byte.  sensor_data is the
\* sequence of the components read (one component for the scalar kinds).
XYZ(data) == <<get_float_32(data, 6), get_float_32(data, 10), get_float_32(data, 14)>>
Scalar(data) == <<get_float_32(data, 6)>>
\* a decoder that fills the components a short buffer lacks with 0
Decoded_zero_filled(st, data, n) ==
  [exc |-> NoExc, sensor_type |-> st, timestamp |-> get_uint_32(data, 2),
   sensor_data |-> [k \in 1..n |-> IF k <= Len(data.floats) THEN data.floats[k] ELSE 0]]

\* One branch: the reads of the timestamp and of the n components, in order;
\* the first read past the end of the buffer raises IndexError before anything
\* is assigned.
Decoded(st, data, n) ==
  IF Readable(data, 2, 4) /\ Readable(data, 6 + 4 * (n - 1), 4)
  THEN [exc |-> NoExc, sensor_type |-> st, timestamp |-> get_uint_32(data, 2),
        sensor_data |-> IF n = 3 THEN XYZ(data) ELSE Scalar(data)]
  ELSE [exc |-> "IndexError", sensor_type |-> st, timestamp |-> 0, sensor_data |-> <<>>]
decode(data) ==
  CASE data.id = AccId -> Decoded("Acc", data, 3)
    [] data.id = GyroId -> Decoded("Gyro", data, 3)
    [] data.id = MagnId -> Decoded("Magn", data, 3)
    [] data.id = TemperatureId -> Decoded("Temperature", data, 1)
    [] data.id = ECGId -> Decoded("ECG", data, 1)
    [] OTHER -> [exc |-> "Unknown sensor type", sensor_type |-> "", timestamp |-> 0,
                 sensor_data |-> <<>>]

\* index of the handler of (device_id, sensor_type) in the dict, 0 if none
HandlerIndex(handlers, device_id, sensor_type) ==
  LET S == { i \in 1..Len(handlers) :
               handlers[i].device_id = device_id /\ handlers[i].sensor_type = sensor_type }
  IN IF S = {} THEN 0 ELSE Min(S)

\* a lookup that makes a new handler on every call
get_notification_handler_always_new(handlers, device_id, sensor_type) ==
  Append(handlers, [device_id |-> device_id, sensor_type |-> sensor_type,
                    notifications |-> <<>>])

get_notification_handler(handlers, device_id, sensor_type) ==
  IF HandlerIndex(handlers, device_id, sensor_type) = 0
  THEN Append(handlers, [device_id |-> device_id, sensor_type |-> sensor_type,
                         notifications |-> <<>>])
  ELSE handlers

\* a handler that keeps its notifications ordered by device timestamp
NotificationHandler_handle_notification_sorted(h, timestamp, sensor_data, now) ==
  LET n == [device_id |-> h.device_id, sensor_type |-> h.sensor_type,
            timestamp |-> timestamp, local_timestamp |-> now,
            sensor_data |-> sensor_data]
      before == SelectSeq(h.notifications, LAMBDA m : m.timestamp <= timestamp)
      after == SelectSeq(h.notifications, LAMBDA m : m.timestamp > timestamp)
  IN [h EXCEPT !.notifications = before \o <<n>> \o after]

\* NotificationHandler.handle_notification: append one notification
NotificationHandler_handle_notification(h, timestamp, sensor_data, now) ==
  [h EXCEPT !.notifications =
     Append(@, [device_id |-> h.device_id, sensor_type |-> h.sensor_type,
                timestamp |-> timestamp, local_timestamp |-> now,
                sensor_data |-> sensor_data])]

handle_notification(sender, data) ==
  /\ session = "MovesenseDataCollector"
  /\ clock < MaxSamples
  /\ LET d == decode(data) IN
     IF d.exc = "Unknown sensor type"
     THEN /\ last' = [call |-> "handle_notification", exc |-> NoExc,
                      logged |-> "Unknown sensor type"]
          /\ UNCHANGED <<notification_handlers, clock>>
     ELSE IF d.exc # NoExc
     THEN /\ last' = [call |-> "handle_notification", exc |-> d.exc,
                      logged |-> ""]
          /\ UNCHANGED <<notification_handlers, clock>>
     ELSE LET hs == get_notification_handler(notification_handlers, sender, d.sensor_type)
              k == HandlerIndex(hs, sender, d.sensor_type)
          IN /\ notification_handlers' =
                  [hs EXCEPT ![k] = NotificationHandler_handle_notification(
                                      @, d.timestamp, d.sensor_data, clock)]
             /\ clock' = clock + 1
             /\ last' = [call |-> "handle_notification", exc |-> NoExc,
                         logged |-> ""]
  /\ UNCHANGED <<session, sensors, phase>>

\* ------------------------------------------------------------ unification
\* Both unify_notifications methods run the same steps on the data frame df
\* built from the concatenated samples; keys[i] is the (device, sensor_type)
\* of row i, whose "id" column is i - 1.

\* the "id" values of the rows of group g
GroupIds(keys, g) == { i - 1 : i \in { j \in 1..Len(keys) : keys[j] = g } }

\* df.groupby([device, sensor_type])["id"].count().max()
highest_observation_count(keys) ==
  Max({ Cardinality(GroupIds(keys, g)) : g \in Range(keys) })

\* (x - x.min()).max() of the group of row i
GroupSpan(keys, i) ==
  LET ids == GroupIds(keys, keys[i]) IN Max({ x - Min(ids) : x \in ids })

\* relative_id with the rank divided by the group's count, not by its span
relative_id_by_count(keys, i) ==
  LET ids == GroupIds(keys, keys[i])
      x == i - 1
  IN ((x - Min(ids)) * highest_observation_count(keys)) \div (GroupSpan(keys, i) + 1)

\* relative_id with an integer quotient (// for /) before the product
relative_id_int_div(keys, i) ==
  LET ids == GroupIds(keys, keys[i])
      x == i - 1
  IN ((x - Min(ids)) \div GroupSpan(keys, i)) * highest_observation_count(keys)

\* ((x - x.min()) / ((x - x.min()).max()) * highest_observation_count).astype(int)
\* for row i of a group whose span is not 0.  The quotient is a double; for
\* the counts of this model the truncated product equals the exact floor.
relative_id(keys, i) ==
  LET ids == GroupIds(keys, keys[i])
      x == i - 1
  IN ((x - Min(ids)) * highest_observation_count(keys)) \div GroupSpan(keys, i)

\* The transform of every group.  A group of one row divides 0 by 0: the NaN
\* cannot be cast by astype(int), which raises ValueError.
transform(keys) ==
  IF \E i \in 1..Len(keys) : GroupSpan(keys, i) = 0
  THEN [exc |-> "ValueError", relative_id |-> <<>>]
  ELSE [exc |-> NoExc, relative_id |-> [i \in 1..Len(keys) |-> relative_id(keys, i)]]

\* the rows of df that pivot_table aggregates into the cell (index i, group g)
CellRows(keys, rel, i, g) == { j \in 1..Len(keys) : rel[j] = i /\ keys[j] = g }

\* aggfunc=lambda x: x yields the single value of a one-row group; a group of
\* several rows is no aggregated value and pivot_table raises ValueError.
\* an index reindexed to the whole range 0..max
pivot_index_full(rel) == [n \in 1..(Max(Range(rel)) + 1) |-> n - 1]
\* the index of the pivot table: the relative ids that occur, ascending
pivot_index(rel) == SortedSeq(Range(rel))
pivot_raises(keys, rel) ==
  \E i \in Range(rel), g \in Range(keys) : Cardinality(CellRows(keys, rel, i, g)) > 1
pivot_cell(rows, keys, rel, field, i, g) ==
  LET C == CellRows(keys, rel, i, g)
  IN IF C = {} THEN NaN ELSE Some(rows[CHOOSE j \in C : TRUE][field])

\* df.filter(...).min(axis=1): the least present value of a row, NaN if none
RowMin(cells) ==
  LET present == { c[1] : c \in { d \in cells : d # NaN } }
  IN IF present = {} THEN NaN ELSE Some(Min(present))

\* the k-th component of a sensor_data cell (apply(lambda x: pd.Series(x)))
Component(cell, k) == IF cell = NaN THEN NaN ELSE Some(cell[1][k])

\* whether the name of the pivot column of value v contains the text `like`
\* (DataFrame.filter(like=...) is a substring test, not a pattern)
NameContains(v, like) ==
  CASE like = "^timestamp" -> FALSE
    [] like = "timestamp" -> v \in {"timestamp", "local_timestamp"}
    [] like = "local_timestamp" -> v = "local_timestamp"
    [] OTHER -> FALSE

\* filter(like=...).min(axis=1) at index i over the pivot columns of `values`
MergedColumn(rows, keys, rel, values, like, i) ==
  RowMin({ pivot_cell(rows, keys, rel, vg[1], i, vg[2]) :
             vg \in { w \in values \X Range(keys) : NameContains(w[1], like) } })

\* --------------------------------- MovesenseDataCollector.unify_notifications
all_notifications(handlers) ==
  Flatten([i \in 1..Len(handlers) |-> handlers[i].notifications])

CollectorKeys(rows) == [i \in 1..Len(rows) |-> <<rows[i].device_id, rows[i].sensor_type>>]

\* the columns a sensor_data column is split into
CollectorSuffixes(sensor_type) ==
  IF sensor_type \in {"Acc", "Magn", "Gyro"} THEN <<"_X", "_Y", "_Z">> ELSE <<"">>

CollectorColumns(keys) ==
  UNION { { <<g[1], g[2], k>> : k \in 1..Len(CollectorSuffixes(g[2])) } : g \in Range(keys) }

CollectorRow(rows, keys, rel, i) ==
  [relative_id |-> i,
   timestamp |->
     MergedColumn(rows, keys, rel, {"local_timestamp", "timestamp", "sensor_data"},
                  "^timestamp", i),
   local_timestamp |->
     MergedColumn(rows, keys, rel, {"local_timestamp", "timestamp", "sensor_data"},
                  "local_timestamp", i),
   cells |-> [c \in CollectorColumns(keys) |->
                Component(pivot_cell(rows, keys, rel, "sensor_data", i, <<c[1], c[2]>>), c[3])]]

\* What unify_notifications returns or raises for the handlers given.  A data
\* frame built from no notification has no column, and grouping it by
\* device_id raises KeyError.
DataCollector_unify_notifications(handlers) ==
  LET rows == all_notifications(handlers)
      keys == CollectorKeys(rows)
      t == transform(keys)
      index == pivot_index(t.relative_id)
  IN IF rows = <<>>
     THEN [exc |-> "KeyError", relative_id |-> <<>>, table |-> <<>>]
     ELSE IF t.exc # NoExc
     THEN [exc |-> t.exc, relative_id |-> <<>>, table |-> <<>>]
     ELSE IF pivot_raises(keys, t.relative_id)
     THEN [exc |-> "ValueError", relative_id |-> t.relative_id, table |-> <<>>]
     ELSE [exc |-> NoExc, relative_id |-> t.relative_id,
           table |-> [n \in 1..Len(index) |->
                        CollectorRow(rows, keys, t.relative_id, index[n])]]

unify_notifications ==
  /\ session = "MovesenseDataCollector"
  /\ last' = [call |-> "unify_notifications", logged |-> ""] @@
             DataCollector_unify_notifications(notification_handlers)
  /\ UNCHANGED <<session, notification_handlers, clock, sensors, phase>>

\* ------------------------------------------------- MovesenseDeviceManager
\* index of the entry of sensor id in a device's sensors dict, 0 if none
SensorIndex(dict, id) ==
  LET S == { i \in 1..Len(dict) : dict[i].id = id } IN IF S = {} THEN 0 ELSE Min(S)

\* device.sensors[sensor.id] = sensor
dict_set(dict, sensor) ==
  IF SensorIndex(dict, sensor.id) = 0
  THEN Append(dict, sensor)
  ELSE [dict EXCEPT ![SensorIndex(dict, sensor.id)] = sensor]

subscribe_to_sensor(device, sensor) ==
  /\ session = "MovesenseDeviceManager"
  /\ phase = "menu"
  /\ sensors' = [sensors EXCEPT ![device] = dict_set(@, sensor)]
  /\ last' = [call |-> "subscribe_to_sensor", exc |-> NoExc, logged |-> "",
              device |-> device, sensor |-> sensor]
  /\ UNCHANGED <<session, notification_handlers, clock, phase>>

start_data_collection_sync ==
  /\ session = "MovesenseDeviceManager"
  /\ phase = "menu"
  /\ phase' = "collecting"
  /\ last' = [call |-> "start_data_collection_sync", exc |-> NoExc, logged |-> ""]
  /\ UNCHANGED <<session, notification_handlers, clock, sensors>>

\* components of a sample of the sensor type
Arity(sensor_type) ==
  CASE sensor_type \in {"Acc", "Gyro", "Magn"} -> 3
    [] sensor_type \in {"Temp", "ECG"} -> 1
    [] sensor_type = "IMU6" -> 6
    [] sensor_type = "IMU9" -> 9

\* MovesenseSensor.notification_handler: decode the frame for the sensor's
\* kind and append the sample to sensor.data; a frame shorter than
\* 6 + 4 * arity bytes is Truncated, logged and dropped.
Truncated(sensor, data) == FrameLen(data) < 6 + 4 * Arity(sensor.sensor_type)
MovesenseSensor_notification_handler(sensor, device_name, data) ==
  IF Truncated(sensor, data)
  THEN sensor
  ELSE [sensor EXCEPT !.data =
          Append(@, [device |-> device_name, sensor_type |-> sensor.sensor_type,
                     timestamp |-> get_uint_32(data, 2),
                     sensor_data |-> [k \in 1..Arity(sensor.sensor_type) |->
                                        get_float_32(data, 6 + 4 * (k - 1))]])]

all_data(ss) ==
  Flatten([n \in 1..Len(connected_devices) |->
             Flatten([k \in 1..Len(ss[connected_devices[n]]) |->
                        ss[connected_devices[n]][k].data])])

\* ConnectedDevice.notification_handler, run by the task that the notify
\* callback creates with ensure_future: self.sensors[sensor_id] raises KeyError
\* for an id without a subscription, and the task ends with that exception.
notification_handler(device, data) ==
  /\ session = "MovesenseDeviceManager"
  /\ phase = "collecting"
  /\ Len(all_data(sensors)) < MaxSamples
  /\ LET k == SensorIndex(sensors[device], data.id) IN
     IF k = 0
     THEN /\ last' = [call |-> "notification_handler", exc |-> "KeyError", logged |-> ""]
          /\ UNCHANGED sensors
     ELSE /\ sensors' = [sensors EXCEPT ![device][k] =
                           MovesenseSensor_notification_handler(@, device, data)]
          /\ last' = [call |-> "notification_handler", exc |-> NoExc,
                      logged |-> IF Truncated(sensors[device][k], data)
                                 THEN "Truncated" ELSE ""]
  /\ UNCHANGED <<session, notification_handlers, clock, phase>>

\* ------------------------------- MovesenseDeviceManager.unify_notifications
ManagerKeys(rows) == [i \in 1..Len(rows) |-> <<rows[i].device, rows[i].sensor_type>>]

\* the columns a sensor_data column is split into
ManagerSuffixes(sensor_type) ==
  CASE sensor_type \in {"Acc", "Magn", "Gyro"} -> <<"_X", "_Y", "_Z">>
    [] sensor_type \in {"Temp", "ECG", "HR"} -> <<"">>
    [] sensor_type = "IMU6" ->
         <<"_Acc_X", "_Acc_Y", "_Acc_Z", "_Gyro_X", "_Gyro_Y", "_Gyro_Z">>
    [] sensor_type = "IMU9" ->
         <<"_Acc_X", "_Acc_Y", "_Acc_Z", "_Gyro_X", "_Gyro_Y", "_Gyro_Z",
           "_Magn_X", "_Magn_Y", "_Magn_Z">>

ManagerColumns(keys) ==
  UNION { { <<g[1], g[2], k>> : k \in 1..Len(ManagerSuffixes(g[2])) } : g \in Range(keys) }

ManagerRow(rows, keys, rel, i) ==
  [relative_id |-> i,
   timestamp |-> MergedColumn(rows, keys, rel, {"timestamp", "sensor_data"}, "timestamp", i),
   cells |-> [c \in ManagerColumns(keys) |->
                Component(pivot_cell(rows, keys, rel, "sensor_data", i, <<c[1], c[2]>>), c[3])]]

\* What unify_notifications returns or raises for the sensors given; as in
\* the collector, no sample at all raises KeyError.
DeviceManager_unify_notifications(ss) ==
  LET rows == all_data(ss)
      keys == ManagerKeys(rows)
      t == transform(keys)
      index == pivot_index(t.relative_id)
  IN IF rows = <<>>
     THEN [exc |-> "KeyError", relative_id |-> <<>>, table |-> <<>>]
     ELSE IF t.exc # NoExc
     THEN [exc |-> t.exc, relative_id |-> <<>>, table |-> <<>>]
     ELSE IF pivot_raises(keys, t.relative_id)
     THEN [exc |-> "ValueError", relative_id |-> t.relative_id, table |-> <<>>]
     ELSE [exc |-> NoExc, relative_id |-> t.relative_id,
           table |-> [n \in 1..Len(index) |->
                        ManagerRow(rows, keys, t.relative_id, index[n])]]

\* end_data_collection, called from the finally clause of
\* start_collection_activity: notifications are stopped on every device, the
\* samples unified and the table written with to_csv (last.table).  An
\* exception of unify_notifications leaves the finally clause and run().
end_data_collection ==
  /\ session = "MovesenseDeviceManager"
  /\ phase = "collecting"
  /\ LET r == DeviceManager_unify_notifications(sensors) IN
     /\ last' = [call |-> "end_data_collection", logged |-> ""] @@ r
     /\ phase' = IF r.exc = NoExc THEN "menu" ELSE "exited"
  /\ UNCHANGED <<session, notification_handlers, clock, sensors>>

\* ------------------------------------------------------------ specification
Init ==
  /\ session \in {"MovesenseDataCollector", "MovesenseDeviceManager"}
  /\ notification_handlers = <<>>
  /\ clock = 0
  /\ sensors = [d \in Devices |-> <<>>]
  /\ phase = "menu"
  /\ last = [call |-> "init", exc |-> NoExc, logged |-> ""]

Next ==
  \/ \E sender \in Devices : \E data \in Frames(sender) : handle_notification(sender, data)
  \/ unify_notifications
  \/ \E device \in Devices : \E sensor \in SensorPool(device) :
       subscribe_to_sensor(device, sensor)
  \/ start_data_collection_sync
  \/ \E device \in Devices : \E data \in Frames(device) : notification_handler(device, data)
  \/ end_data_collection

Spec == Init /\ [][Next]_vars

\* ------------------------------------------------------------------ views
IsCollector == session = "MovesenseDataCollector"

\* the streams in the order unification concatenates them
StreamSeq ==
  IF IsCollector
  THEN [i \in 1..Len(notification_handlers) |-> notification_handlers[i].notifications]
  ELSE Flatten([n \in 1..Len(connected_devices) |->
                  [k \in 1..Len(sensors[connected_devices[n]]) |->
                     sensors[connected_devices[n]][k].data]])

Rows == IF IsCollector THEN all_notifications(notification_handlers) ELSE all_data(sensors)
Keys == IF IsCollector THEN CollectorKeys(Rows) ELSE ManagerKeys(Rows)

Count(s) == Len(StreamSeq[s])
RECURSIVE Offset(_)
\* rows of df before the first sample of stream s
Offset(s) == IF s = 1 THEN 0 ELSE Offset(s - 1) + Count(s - 1)
\* M: the largest sample count of a stream
MaxCount == Max({ Count(s) : s \in 1..Len(StreamSeq) } \cup {0})
\* the row of df holding the sample of rank r of stream s
RowOf(s, r) == Offset(s) + r + 1

\* unification was the last call
UnifyCalled == last.call \in {"unify_notifications", "end_data_collection"}
\* ... and it returned a table
Unified == UnifyCalled /\ last.exc = NoExc

\* ----------------------------------------------------------------- claims

C2_OneSamplePerIndex ==
  UnifyCalled =>
    LET keys == Keys IN
    \A s \in 1..Len(StreamSeq) :
      Count(s) > 1 =>
        /\ Cardinality({ relative_id(keys, RowOf(s, r)) : r \in 0..(Count(s) - 1) }) = Count(s)
        /\ last.relative_id # <<>> =>
             Cardinality({ last.relative_id[RowOf(s, r)] : r \in 0..(Count(s) - 1) }) = Count(s)
        /\ last.exc = NoExc =>
             Cardinality({ n \in 1..Len(last.table) :
                             last.table[n].cells[<<keys[RowOf(s, 0)][1], keys[RowOf(s, 0)][2], 1>>]
                               # NaN })
               = Count(s)

\* streams of three and of two samples were unified
C2_Witness ==
  /\ Unified
  /\ \E s, t \in 1..Len(StreamSeq) : Count(s) = 3 /\ Count(t) = 2

\* the relative indices of the rows of the table returned, top to bottom
TableIndex == [n \in 1..Len(last.table) |-> last.table[n].relative_id]
\* the rows of df mapped to relative index i
RowsAt(i) == { j \in 1..Len(last.relative_id) : last.relative_id[j] = i }

\* C3 as claimed: the table returned has one row for every relative index of
\* 0..M, in ascending order, none repeated and none skipped.
C3_RowsCoverFullRange ==
  Unified => TableIndex = [n \in 1..(MaxCount + 1) |-> n - 1]

\* C3, amended: the table returned has exactly one row for every relative
\* index to which a sample of some stream was mapped, in ascending order and
\* within 0..M; an index no sample was mapped to has no row.
C3_RowsAreMappedIndices ==
  Unified =>
    /\ \A n \in 1..(Len(TableIndex) - 1) : TableIndex[n] < TableIndex[n + 1]
    /\ Range(TableIndex) = { last.relative_id[j] : j \in 1..Len(Rows) }
    /\ Range(TableIndex) \subseteq 0..MaxCount
    /\ Len(last.relative_id) = Len(Rows)

\* a table was returned that lacks the row of an index of 0..M
C3_Witness ==
  /\ Unified
  /\ \E i \in 0..MaxCount : i \notin Range(TableIndex)

\* C4: every row of the table returned carries as timestamp the least device
\* timestamp, and as local_timestamp the least local timestamp, of the
\* samples mapped to the row's relative index.
C4_RowTimestampsAreMinima ==
  Unified =>
    \A n \in 1..Len(last.table) :
      LET row == last.table[n] IN
      /\ row.timestamp = Some(Min({ Rows[j].timestamp : j \in RowsAt(row.relative_id) }))
      /\ "local_timestamp" \in DOMAIN row
      /\ row.local_timestamp =
           Some(Min({ Rows[j].local_timestamp : j \in RowsAt(row.relative_id) }))

\* the cells of the columns of stream s in row n of the table returned
StreamCells(s, n) ==
  LET key == Keys[RowOf(s, 0)]
      row == last.table[n]
  IN [k \in { c[3] : c \in { d \in DOMAIN row.cells : d[1] = key[1] /\ d[2] = key[2] } } |->
        row.cells[<<key[1], key[2], k>>]]
\* the cells a sample fills: one per component
SampleCells(sample) == [k \in 1..Len(sample.sensor_data) |-> Some(sample.sensor_data[k])]
AbsentCells(cells) == \A k \in DOMAIN cells : cells[k] = NaN

\* C5: unification loses and duplicates nothing: it returns a table in which
\* every sample of every non-empty stream fills the stream's columns in exactly
\* one row, the row of its relative index, and the stream's columns are absent
\* in every other row.
C5_NoSampleLostOrDuplicated ==
  UnifyCalled =>
    \A s \in 1..Len(StreamSeq) :
      Count(s) > 0 =>
        /\ last.exc = NoExc
        /\ \A r \in 0..(Count(s) - 1) :
             \E n \in 1..Len(last.table) :
               /\ last.table[n].relative_id = last.relative_id[RowOf(s, r)]
               /\ StreamCells(s, n) = SampleCells(StreamSeq[s][r + 1])
        /\ \A n \in 1..Len(last.table) :
             (\A r \in 0..(Count(s) - 1) :
                last.relative_id[RowOf(s, r)] # last.table[n].relative_id)
               => AbsentCells(StreamCells(s, n))
        /\ Cardinality({ n \in 1..Len(last.table) : ~AbsentCells(StreamCells(s, n)) })
             = Count(s)

\* C6: unification called with a stream of exactly one sample returns a table,
\* and the sample is in the row of relative index 0 and in no other row.
C6_SingleSampleAtIndexZero ==
  UnifyCalled =>
    \A s \in 1..Len(StreamSeq) :
      Count(s) = 1 =>
        /\ last.exc = NoExc
        /\ last.relative_id[RowOf(s, 0)] = 0
        /\ \A n \in 1..Len(last.table) :
             AbsentCells(StreamCells(s, n)) <=> last.table[n].relative_id # 0

\* C7: unification called when no stream holds a sample returns an empty
\* table and raises nothing.
C7_EmptyUnificationReturnsEmptyTable ==
  (UnifyCalled /\ Rows = <<>>) => (last.exc = NoExc /\ last.table = <<>>)

\* C9: subscribing a sensor whose id a sensor of the device already has fails
\* with DuplicateSensorId and leaves the device's sensors as they were.
C9_DuplicateIdRejected ==
  [][\A device \in Devices : \A sensor \in SensorPool(device) :
       (subscribe_to_sensor(device, sensor) /\ SensorIndex(sensors[device], sensor.id) # 0)
         => (sensors' = sensors /\ last'.exc = "DuplicateSensorId")]_vars

\* C10: a frame whose id byte matches no known or subscribed sensor is logged
\* and dropped: no stream is created or changed and nothing is raised.
C10_UnknownIdDropped ==
  [][\A device \in Devices : \A data \in Frames(device) :
       ((handle_notification(device, data) /\ decode(data).exc = "Unknown sensor type")
          \/ (notification_handler(device, data) /\ SensorIndex(sensors[device], data.id) = 0))
         => (/\ UNCHANGED <<notification_handlers, sensors>>
             /\ last'.exc = NoExc
             /\ last'.logged # "")]_vars

\* ids the decoder of MovesenseDataCollector has a branch for, and the number
\* of components of their samples
KnownIds == {AccId, GyroId, MagnId, TemperatureId, ECGId}
ArityOfId(id) == IF id \in {AccId, GyroId, MagnId} THEN 3 ELSE 1
IsTruncated(data) == FrameLen(data) < 6 + 4 * ArityOfId(data.id)
\* a frame of sensor id with n whole components after its header
FrameOf(id, n) == [id |-> id, timestamp |-> 0, floats |-> [k \in 1..n |-> k]]

\* the frames of each device that are shorter than their kind needs
TruncatedFrames == [d \in Devices |-> { f \in Frames(d) : IsTruncated(f) }]
WholeFrames == [d \in Devices |-> { f \in Frames(d) : ~IsTruncated(f) }]

\* the decoder fails on exactly the frames shorter than 6 + 4 * arity bytes,
\* for each of the five kinds
C11_DecodeFailsWhenShort ==
  \A id \in KnownIds : \A n \in 0..3 :
    (decode(FrameOf(id, n)).exc = "IndexError") <=> IsTruncated(FrameOf(id, n))

\* handle_notification on a frame of a known id, shorter than 6 + 4 * arity
\* bytes, changes no stream and raises the IndexError of the read
C11_TruncatedStep ==
  \A device \in Devices : \A data \in TruncatedFrames[device] :
    (data.id \in KnownIds /\ handle_notification(device, data))
      => (/\ notification_handlers' = notification_handlers
          /\ last'.exc = "IndexError")

\* after a rejected frame every whole frame of a known id can still be handled
C11_StillProcessing ==
  (IsCollector /\ last.exc = "IndexError") =>
    \A device \in Devices : \A data \in WholeFrames[device] :
      data.id \in KnownIds => ENABLED handle_notification(device, data)

\* C11: for every sensor kind, a frame with a known id byte but fewer than
\* 6 + 4 * arity bytes is rejected with a decode error (the IndexError of the
\* read past the buffer's end): no sample, partial or whole, is appended to
\* any stream, and later whole frames are still handled.
C11_TruncatedFrameRejected ==
  /\ [](C11_DecodeFailsWhenShort /\ C11_StillProcessing)
  /\ [][C11_TruncatedStep]_vars

\* a short frame was rejected after samples had been stored, and a whole frame
\* can follow
C11_Witness ==
  /\ IsCollector
  /\ last.exc = "IndexError"
  /\ clock > 0
  /\ ENABLED handle_notification("d1", FrameOf(AccId, 3))

\* a step of a notification callback
CallbackStep == last'.call \in {"handle_notification", "notification_handler"}
\* the callback stored the frame it was called with
Stored == last'.exc = NoExc /\ last'.logged = ""
IsPrefix(s, t) == Len(s) <= Len(t) /\ SubSeq(t, 1, Len(s)) = s
\* t is s with n samples added at its end
Grew(s, t, n) == Len(t) = Len(s) + n /\ SubSeq(t, 1, Len(s)) = s

\* the handlers a step of the collector created or changed
ChangedHandlers ==
  { i \in 1..Len(notification_handlers') :
      IF i <= Len(notification_handlers)
      THEN notification_handlers'[i] # notification_handlers[i]
      ELSE TRUE }
\* the sensors of device d a step of the manager changed
ChangedSensors(d) == { k \in 1..Len(sensors'[d]) : sensors'[d][k] # sensors[d][k] }

\* a callback keeps every stream and every sample in it where it was, and
\* adds one sample in all when it stored its frame and none when it did not
C12_AppendOnlyStep ==
  CallbackStep =>
    IF IsCollector
    THEN /\ Len(notification_handlers) <= Len(notification_handlers')
         /\ \A i \in 1..Len(notification_handlers) :
              IsPrefix(notification_handlers[i].notifications,
                       notification_handlers'[i].notifications)
         /\ Cardinality(ChangedHandlers) = (IF Stored THEN 1 ELSE 0)
         /\ \A i \in ChangedHandlers :
              Grew(IF i <= Len(notification_handlers)
                   THEN notification_handlers[i].notifications ELSE <<>>,
                   notification_handlers'[i].notifications, 1)
    ELSE /\ \A d \in Devices :
              /\ Len(sensors'[d]) = Len(sensors[d])
              /\ \A k \in 1..Len(sensors[d]) :
                   /\ IsPrefix(sensors[d][k].data, sensors'[d][k].data)
                   /\ k \in ChangedSensors(d) =>
                        Grew(sensors[d][k].data, sensors'[d][k].data, 1)
         /\ Cardinality(UNION { {d} \X ChangedSensors(d) : d \in Devices })
              = (IF Stored THEN 1 ELSE 0)

\* the sample handle_notification adds is the last of its stream and holds
\* what the frame carried and the time of its arrival
C12_StoredAsDecoded ==
  (IsCollector /\ CallbackStep /\ Stored) =>
    \A device \in Devices : \A data \in WholeFrames[device] :
      (data.id \in KnownIds /\ handle_notification(device, data)) =>
        LET st == decode(data).sensor_type
            k == HandlerIndex(notification_handlers', device, st)
            ns == notification_handlers'[k].notifications
        IN /\ k # 0
           /\ ns # <<>>
           /\ ns[Len(ns)] = [device_id |-> device, sensor_type |-> st,
                             timestamp |-> data.timestamp, local_timestamp |-> clock,
                             sensor_data |-> SubSeq(data.floats, 1, ArityOfId(data.id))]

\* C12: under any interleaving of the notification callbacks of the devices
\* and sensors every stream is append-only: a callback leaves every sample
\* stored before in its stream and at its place, a frame that decodes is
\* stored once, as the last sample of its stream and as it was decoded, also
\* when an equal or a later-stamped sample is there already, and a frame that
\* does not decode stores nothing.
C12_StreamsAppendOnly == [][C12_AppendOnlyStep /\ C12_StoredAsDecoded]_vars

\* two streams were filled in turn, and one holds a sample stamped by the
\* device before the sample that arrived ahead of it
C12_Witness ==
  /\ IsCollector
  /\ last.call = "handle_notification"
  /\ Cardinality({ s \in 1..Len(StreamSeq) : Count(s) > 0 }) >= 2
  /\ \E s \in 1..Len(StreamSeq) : \E i \in 1..(Count(s) - 1) :
       StreamSeq[s][i].timestamp > StreamSeq[s][i + 1].timestamp

\* a collection has run and none is running: samples are only stored while
\* collecting, and only end_data_collection ends a collection
Stopped == ~IsCollector /\ phase # "collecting" /\ all_data(sensors) # <<>>

\* C13: stopping a collection (at the operator's interrupt, however early)
\* disables the notifications, then unifies once and returns a table that
\* holds every sample stored before the stop; and once a collection has
\* stopped its streams are frozen: no sample is added or removed.
C13_StopFreezesAndReturnsAll ==
  /\ [](last.call = "end_data_collection" =>
         /\ last.exc = NoExc
         /\ phase # "collecting"
         /\ \A s \in 1..Len(StreamSeq) : \A r \in 0..(Count(s) - 1) :
              \E n \in 1..Len(last.table) :
                /\ last.table[n].relative_id = last.relative_id[RowOf(s, r)]
                /\ StreamCells(s, n) = SampleCells(StreamSeq[s][r + 1]))
  /\ [][Stopped => all_data(sensors') = all_data(sensors)]_vars

\* handle_notification on a whole frame of device d and kind st changes the
\* stream of (d, st) and no other
C14_FrameStep ==
  (IsCollector /\ CallbackStep) =>
    \A device \in Devices : \A data \in WholeFrames[device] :
      (data.id \in KnownIds /\ handle_notification(device, data)) =>
        LET st == decode(data).sensor_type
            k0 == HandlerIndex(notification_handlers, device, st)
            k == HandlerIndex(notification_handlers', device, st)
        IN /\ k # 0
           /\ IF k0 = 0
              THEN /\ Len(notification_handlers') = Len(notification_handlers) + 1
                   /\ k = Len(notification_handlers')
                   /\ Len(notification_handlers'[k].notifications) = 1
              ELSE /\ Len(notification_handlers') = Len(notification_handlers)
                   /\ k = k0
                   /\ Grew(notification_handlers[k].notifications,
                           notification_handlers'[k].notifications, 1)
           /\ \A i \in 1..Len(notification_handlers) :
                i # k => notification_handlers'[i] = notification_handlers[i]

\* no two handlers have the same (device_id, sensor_type)
C14_OneStreamPerKey ==
  \A i, j \in 1..Len(notification_handlers) :
    (/\ notification_handlers[i].device_id = notification_handlers[j].device_id
     /\ notification_handlers[i].sensor_type = notification_handlers[j].sensor_type)
      => i = j

\* C14: handling one frame of device d whose id byte resolves to kind k, and
\* which decodes, changes only the stream keyed (d, k): the stream is created
\* with this one sample if there was none, else the one there is grows by this
\* sample and keeps its earlier ones; every other stream stays as it was, and
\* there is never more than one stream of a key.
C14_OnlyKeyedStreamChanges == [](C14_OneStreamPerKey) /\ [][C14_FrameStep]_vars

\* a frame was just stored in a stream that held samples already, next to
\* another stream of the same device and one of the other device
C14_Witness ==
  /\ IsCollector
  /\ last.call = "handle_notification" /\ last.exc = NoExc /\ last.logged = ""
  /\ Len(notification_handlers) = 3
  /\ \E i \in 1..3 :
       /\ Len(notification_handlers[i].notifications) >= 2
       /\ notification_handlers[i].notifications[
             Len(notification_handlers[i].notifications)].local_timestamp = clock - 1

====
